---- MODULE Spec2Model ----
(***************************************************************************)
(* A model of TweetStream (src/tweetstream.py): the reconnecting client of *)
(* the twitter streaming API, driven by a tornado IOLoop.                  *)
(*                                                                         *)
(* Every handler of the class runs to completion on the single event loop, *)
(* so each handler is one action.  The object's fields are the variables   *)
(* of the same name.  The handlers are written as operators from a record  *)
(* of the fields to a record of the fields, composed the way the methods   *)
(* call each other; an action applies one handler and commits the result.  *)
(*                                                                         *)
(* A callback given to the transport (connect, read_until, read_bytes,     *)
(* set_close_callback) runs in the turn its event happens, or it is queued *)
(* on the loop and runs in a later turn, after other handlers: a queued    *)
(* callback outlives close() of its transport.  An exception that leaves a *)
(* callback of the transport makes IOStream close the transport.           *)
(*                                                                         *)
(* Time is counted in quarter seconds (the resolution of the .25 s step of *)
(* _retry_before_established_delay).  A timer is the time left until it    *)
(* fires, or NoTimer; _stream_restart_time is kept as the time elapsed     *)
(* since it was set (saturating at the 5 s the code compares it with).     *)
(***************************************************************************)
EXTENDS Integers, Sequences, FiniteSets, TLC

VARIABLES
    twitter_stream,     \* self._twitter_stream: "none" (None), "open", "closed"
    read_pending,       \* the callback the transport owes: connect, headers, line, payload, errbody
    close_cb,           \* the transport's close callback: "pre", "noop", "close"
    scheduled,          \* self._stream_restart_scheduled
    in_process,         \* self._stream_restart_in_process
    restart_age,        \* now - self._stream_restart_time (NoTime when None)
    retry_delay,        \* self._retry_delay
    rate_limited_delay, \* self._retry_rate_limited_delay
    pre_delay,          \* self._retry_before_established_delay
    timeout_handle,     \* time left of the pending reconnect timer
    stall_timeout_handle, \* time left of the pending stall timer
    partial_tweet,      \* self._partial_tweet
    clean_message,      \* self._clean_message
    orphans,            \* transports still open that the object no longer owns
    stray_timers,       \* reconnect timers pending that _timeout_handle no longer names
    queued,             \* callbacks of a transport that the loop has queued and not run yet
    \* history variables (read by the properties only)
    ev,                 \* the handler that ran last
    openRes,            \* what open_twitter_stream did in the last step
    replaced,           \* open_twitter_stream found the previous transport still open in the last step
    nErr, nRate, nPre,  \* failures of each tier since the last 200
    lastGap,            \* restart_age read when the last attempt started
    since_payload,      \* time since the stall timer's last arm point (200 or a payload)
    since_emit,         \* time since the 200 or the last message given to the callback
    fatal,              \* a fatal status was received by the current attempt
    nOnError,           \* on_error invocations of the current attempt
    late,               \* the token of the queued callback that ran in the last step, or "none"
    escaped,            \* an exception left the handler of the last step uncaught
    shut,               \* the caller's last call was close()
    parsed,             \* the messages given to parse_response in the last step
    delivered,          \* the messages given to the callback in the last step
    prev_frag,          \* the payload of the frame before, when it was no document
    doc                 \* the document that the last two frames make up, if they do

vars == <<twitter_stream, read_pending, close_cb, scheduled, in_process,
          restart_age, retry_delay, rate_limited_delay, pre_delay,
          timeout_handle, stall_timeout_handle, partial_tweet, orphans,
          ev, openRes, replaced, nErr, nRate, nPre, lastGap, since_payload, since_emit,
          fatal, nOnError, stray_timers, queued, late, escaped, shut, clean_message,
          parsed, delivered, prev_frag, doc>>

----------------------------------------------------------------------------
(* Units and constants of the program *)

Sec(n) == 4 * n

NoTimer == -1
NoTime == -1

FlapGuard == Sec(5)
StallTimeout == Sec(90)
RetryDelayInit == Sec(5)
RetryDelayCap == Sec(320)
RateLimitedInit == Sec(60)
PreDelayInit == 1
PreDelayStep == 1
PreDelayCap == Sec(16)
FatalCodes == {401, 403, 404, 406, 413}

(* Bounds of the model: the consecutive failures of each tier the environment
   produces, in the general specification and in the one that follows the
   backoff tiers to their caps, and the length of the partial-frame buffer *)
MaxErrors == 2
MaxRateLimited == 2
MaxPreFails == 3
DeepErrors == 8
DeepPreFails == 65
MaxPartial == 1
MaxQueued == 1

(* Inputs *)
StatusCodes == {200, 420, 500, 503} \cup FatalCodes
(* The texts of the payloads are written over an alphabet of a digit, the
   minus sign, the brackets of an array and one letter for each kind of JSON
   object that parse_response tells apart:
     T  an object with "text" and a "user" object holding all three fields
     D  an object with no "text" (a delete or limit notice)
     U  an object with "text" and no "user"
     P  an object with "text" whose "user" object lacks a field
     S  an object with "text" whose "user" is not an object *)
Objects == {"T", "D", "U", "P", "S"}
Payloads ==
    {<<>>, <<"1">>, <<"-">>, <<"[">>, <<"]">>} \cup {<<o>> : o \in Objects}
WholePayloads == {<<>>, <<"1">>}
Lines == {"blank", "length", "malformed"}
WholeLines == {"blank", "length"}

Min(a, b) == IF a < b THEN a ELSE b

RECURSIVE Pow2(_)
Pow2(n) == IF n = 0 THEN 1 ELSE 2 * Pow2(n - 1)

MinOf(S) == CHOOSE x \in S : \A y \in S : x <= y

----------------------------------------------------------------------------
(* The fields as one record, and back *)

State ==
    [twitter_stream |-> twitter_stream, read_pending |-> read_pending,
     close_cb |-> close_cb, scheduled |-> scheduled, in_process |-> in_process,
     restart_age |-> restart_age, retry_delay |-> retry_delay,
     rate_limited_delay |-> rate_limited_delay, pre_delay |-> pre_delay,
     timeout_handle |-> timeout_handle,
     stall_timeout_handle |-> stall_timeout_handle,
     partial_tweet |-> partial_tweet, orphans |-> orphans,
     ev |-> ev, openRes |-> openRes, replaced |-> replaced, nErr |-> nErr, nRate |-> nRate,
     nPre |-> nPre, lastGap |-> lastGap, since_payload |-> since_payload,
     since_emit |-> since_emit, fatal |-> fatal, nOnError |-> nOnError,
     stray_timers |-> stray_timers, queued |-> queued, late |-> late, escaped |-> escaped, shut |-> shut,
     clean_message |-> clean_message, parsed |-> parsed,
     delivered |-> delivered, prev_frag |-> prev_frag, doc |-> doc]

Commit(s) ==
    /\ twitter_stream' = s.twitter_stream
    /\ read_pending' = s.read_pending
    /\ close_cb' = s.close_cb
    /\ scheduled' = s.scheduled
    /\ in_process' = s.in_process
    /\ restart_age' = s.restart_age
    /\ retry_delay' = s.retry_delay
    /\ rate_limited_delay' = s.rate_limited_delay
    /\ pre_delay' = s.pre_delay
    /\ timeout_handle' = s.timeout_handle
    /\ stall_timeout_handle' = s.stall_timeout_handle
    /\ partial_tweet' = s.partial_tweet
    /\ orphans' = s.orphans
    /\ ev' = s.ev
    /\ openRes' = s.openRes
    /\ replaced' = s.replaced
    /\ nErr' = s.nErr
    /\ nRate' = s.nRate
    /\ nPre' = s.nPre
    /\ lastGap' = s.lastGap
    \* the two stall clocks run only while a stall timer is pending
    /\ since_payload' = IF s.stall_timeout_handle = NoTimer THEN 0 ELSE s.since_payload
    /\ since_emit' = IF s.stall_timeout_handle = NoTimer THEN 0 ELSE s.since_emit
    /\ fatal' = s.fatal
    /\ nOnError' = s.nOnError
    /\ stray_timers' = s.stray_timers
    /\ queued' = s.queued
    /\ late' = s.late
    /\ escaped' = s.escaped
    /\ shut' = s.shut
    /\ clean_message' = s.clean_message
    /\ parsed' = s.parsed
    /\ delivered' = s.delivered
    /\ prev_frag' = s.prev_frag
    /\ doc' = s.doc

(* The handler named e starts: nothing has been opened in this step yet *)
Begin(e) ==
    [State EXCEPT !.ev = e, !.openRes = "none", !.replaced = FALSE,
                  !.late = "none", !.escaped = FALSE, !.parsed = <<>>,
                  !.delivered = <<>>, !.doc = <<>>]

----------------------------------------------------------------------------
(* Timers *)

remove_timeout(s) == [s EXCEPT !.timeout_handle = NoTimer]

remove_stall_timeout(s) == [s EXCEPT !.stall_timeout_handle = NoTimer]

add_timeout(s, seconds) ==
    LET s1 == remove_timeout(s)
    IN [s1 EXCEPT !.stray_timers = @ + (IF s1.timeout_handle # NoTimer THEN 1 ELSE 0),
                  !.timeout_handle = seconds]

set_stall_timeout(s) ==
    [remove_stall_timeout(s) EXCEPT !.stall_timeout_handle = StallTimeout]

(* the callbacks of the current transport that are queued, its close
   callback apart *)
PendingCallbacks(s) == {c \in s.queued : c.id = "current" /\ c.kind # "closed"}

(* IOStream._maybe_run_close_callback: once the transport is closed and none
   of its callbacks is queued any more, its close callback is taken from it
   and queued on the loop *)
maybe_run_close_callback(s) ==
    IF s.twitter_stream = "closed" /\ PendingCallbacks(s) = {} /\ s.close_cb # "noop"
    THEN [s EXCEPT !.queued = @ \cup {[kind |-> "closed", id |-> "current",
                                       cb |-> s.close_cb]},
                   !.close_cb = "noop"]
    ELSE s

(* IOStream.close(): the transport is closed and the reads it owes are
   dropped; a callback the loop has queued already stays queued *)
stream_close(s) ==
    IF s.twitter_stream = "open"
    THEN maybe_run_close_callback([s EXCEPT !.twitter_stream = "closed",
                                            !.read_pending = "none"])
    ELSE maybe_run_close_callback(s)

(* IOStream.set_close_callback *)
set_close_callback(s, cb) ==
    maybe_run_close_callback([s EXCEPT !.close_cb = cb])

(* An exception leaves a callback of the transport uncaught: what the handler
   did so far stays done, and IOStream closes the transport *)
raise(s) == [stream_close(s) EXCEPT !.escaped = TRUE]

close_helper(s) == stream_close(remove_stall_timeout(remove_timeout(s)))

close(s) ==
    IF s.twitter_stream # "none"
    THEN close_helper(set_close_callback(s, "noop"))
    ELSE s

----------------------------------------------------------------------------
(* open_twitter_stream and schedule_restart call each other *)

RECURSIVE open_twitter_stream(_, _)

(* lines 164-165: _current_iostream names the new transport; the transport of
   a queued callback is still alive, so its token is not the new one *)
supersede(q) == {[c EXCEPT !.id = "superseded"] : c \in q}

restart_wanted_always(s) == TRUE

(* line 307: a restart that is scheduled or in process is not asked for again *)
restart_wanted(s) == ~s.scheduled /\ ~s.in_process

schedule_restart(s, seconds, resolved) ==
    IF restart_wanted(s)
    THEN LET s1 == [s EXCEPT !.scheduled = TRUE]
         IN IF seconds = 0
            THEN open_twitter_stream(s1, resolved)
            ELSE add_timeout(s1, seconds)
    ELSE s

too_soon_never(s) == FALSE

(* line 141: the previous attempt started less than 5 s ago *)
too_soon(s) == s.restart_age # NoTime /\ s.restart_age < FlapGuard

close_previous_skipped(s) == s

(* lines 148-149: the transport owned so far is closed first *)
close_previous(s) == IF s.twitter_stream # "none" THEN close(s) ELSE s

(* resolved: getaddrinfo and socket() returned; otherwise they raised and the
   exception leaves open_twitter_stream where it was *)
open_twitter_stream(s, resolved) ==
    LET s1 == [s EXCEPT !.scheduled = FALSE]
    IN IF too_soon(s1)
       THEN [schedule_restart(s1, FlapGuard, resolved) EXCEPT !.openRes = "deferred"]
       ELSE LET s2 == [s1 EXCEPT !.lastGap = s1.restart_age,
                                 !.replaced = (s1.twitter_stream = "open"),
                                 !.restart_age = 0,
                                 !.in_process = TRUE]
                s3 == close_previous(s2)
            IN IF ~resolved
               THEN [s3 EXCEPT !.openRes = "raised"]
               ELSE [s3 EXCEPT
                       !.orphans = @ + (IF s3.twitter_stream = "open" THEN 1 ELSE 0),
                       !.twitter_stream = "open",
                       !.close_cb = "pre",
                       !.read_pending = "connect",
                       !.openRes = "started",
                       !.queued = supersede(@),
                       !.prev_frag = <<>>,
                       !.fatal = FALSE,
                       !.nOnError = 0]

----------------------------------------------------------------------------
(* The handlers *)

fetch(s, resolved) == schedule_restart(s, 0, resolved)

(* on_error: the error callback is invoked, or the error is raised *)
on_error(s) == [s EXCEPT !.nOnError = @ + 1]

when_current_unchecked(id, s, r) == r

(* lines 169, 189, 249, 260: a callback whose id is not _current_iostream
   returns at once *)
when_current(id, s, r) == IF id = "current" THEN r ELSE s

(* write() and the reads raise StreamClosedError on a closed transport *)
on_connect(s) ==
    IF s.twitter_stream = "closed"
    THEN raise([s EXCEPT !.read_pending = "none"])
    ELSE [s EXCEPT !.read_pending = "headers"]

wait_for_message(s) ==
    IF s.twitter_stream = "closed"
    THEN s
    ELSE [s EXCEPT !.read_pending = "line"]

next_retry_delay_uncapped(d) == d * 2

(* lines 210-211 *)
next_retry_delay(d) == IF d < RetryDelayCap THEN d * 2 ELSE d

next_pre_delay_late_cap(d) == IF d <= PreDelayCap THEN d + PreDelayStep ELSE d

(* lines 347-348 *)
next_pre_delay(d) == IF d < PreDelayCap THEN d + PreDelayStep ELSE d

(* lines 231-233 *)
reset_delays(s) ==
    [s EXCEPT !.retry_delay = RetryDelayInit,
              !.rate_limited_delay = RateLimitedInit,
              !.pre_delay = PreDelayInit]

rate_limited_doubled_first(s) ==
    LET s1 == [s EXCEPT !.in_process = FALSE, !.rate_limited_delay = @ * 2]
    IN schedule_restart(s1, s1.rate_limited_delay, TRUE)

(* lines 198-205 *)
rate_limited(s) ==
    LET s1 == [s EXCEPT !.in_process = FALSE]
        s2 == schedule_restart(s1, s1.rate_limited_delay, TRUE)
    IN [s2 EXCEPT !.rate_limited_delay = @ * 2]

(* lines 206-212 *)
retriable_status(s) ==
    LET s1 == [s EXCEPT !.in_process = FALSE]
        s2 == schedule_restart(s1, s1.retry_delay, TRUE)
    IN [s2 EXCEPT !.retry_delay = next_retry_delay(@)]

(* lines 214-227 *)
fatal_status(s, content_length) ==
    IF content_length = 0
    THEN on_error(s)
    ELSE IF s.twitter_stream = "closed"
    THEN raise(s)
    ELSE [s EXCEPT !.read_pending = "errbody"]

is_fatal_without_404(code) == code \in FatalCodes \ {404}

(* line 206: the statuses that are reported and never retried *)
is_fatal(code) == code \in FatalCodes

(* content_length: the Content-Length header of the response, 0 when absent *)
on_headers(s, code, content_length) ==
    LET s0 == set_close_callback([s EXCEPT !.read_pending = "none"], "noop")
    IN IF code # 200
       THEN IF code = 420 THEN rate_limited(s0)
            ELSE IF ~is_fatal(code) THEN retriable_status(s0)
            ELSE fatal_status(s0, content_length)
       ELSE LET s1 == reset_delays([s0 EXCEPT !.in_process = FALSE])
                s2 == set_stall_timeout(set_close_callback(s1, "close"))
            IN wait_for_message(s2)

(* get_error_body, lines 223-225 *)
get_error_body(s) == on_error([s EXCEPT !.read_pending = "none"])

(* line: blank, the length of the payload in base 16, or a text that int()
   rejects with a ValueError, which nothing catches *)
on_result(s, line) ==
    LET s0 == [s EXCEPT !.read_pending = "none"]
    IN IF line = "blank"
       THEN wait_for_message(s0)
       ELSE IF line = "malformed"
       THEN raise(s0)
       ELSE IF s0.twitter_stream = "closed"
       THEN raise(s0)
       ELSE [s0 EXCEPT !.read_pending = "payload"]

(* a number: an optional minus sign and at least one digit *)
IsNumber(text) ==
    /\ Len(text) >= 1
    /\ \A i \in 1..Len(text) : text[i] = "1" \/ (i = 1 /\ text[i] = "-")
    /\ text[Len(text)] = "1"

RECURSIVE IsJson(_)
(* the texts json.loads accepts: a number, an object, the empty array and
   the array of one value *)
IsJson(text) ==
    IF Len(text) = 0 THEN FALSE
    ELSE IF text[1] = "["
    THEN /\ Len(text) >= 2
         /\ text[Len(text)] = "]"
         /\ (Len(text) = 2 \/ IsJson(SubSeq(text, 2, Len(text) - 1)))
    ELSE IF Len(text) = 1 /\ text[1] \in Objects THEN TRUE
    ELSE IsNumber(text)

RECURSIVE Repunit(_)
Repunit(n) == IF n = 0 THEN 0 ELSE 10 * Repunit(n - 1) + 1

RECURSIVE json_loads(_)
(* the value json.loads returns for a text it accepts: the arrays around it
   and the number or object inside *)
json_loads(text) ==
    IF text[1] = "["
    THEN IF Len(text) = 2
         THEN [arrays |-> 1, kind |-> "empty", n |-> 0, object |-> "none"]
         ELSE [json_loads(SubSeq(text, 2, Len(text) - 1)) EXCEPT !.arrays = @ + 1]
    ELSE IF text[1] \in Objects
    THEN [arrays |-> 0, kind |-> "object", n |-> 0, object |-> text[1]]
    ELSE IF text[1] = "-"
    THEN [arrays |-> 0, kind |-> "number", n |-> 0 - Repunit(Len(text) - 1),
          object |-> "none"]
    ELSE [arrays |-> 0, kind |-> "number", n |-> Repunit(Len(text)),
          object |-> "none"]

(* lines 302-303: the message is given to the callback *)
callback(s, message) ==
    [s EXCEPT !.since_emit = 0, !.delivered = Append(@, message)]

(* what subscripting the message does in lines 285-289 *)
IsDict(message) == message.arrays = 0 /\ message.kind = "object"
HasText(message) == message.object # "D"
HasUser(message) == message.object \notin {"D", "U"}
UserIsDict(message) == message.object \in {"T", "P"}
UserHasFields(message) == message.object = "T"

(* lines 294-301: the projection on text and user *)
projection(message) == [message EXCEPT !.kind = "projection"]

(* lines 282-304: in clean mode a KeyError is caught and the message is
   dropped; a TypeError (the message or its "user" cannot be subscripted by a
   string) is not caught *)
parse_response(s, message) ==
    LET s0 == [s EXCEPT !.parsed = Append(@, message)]
    IN IF s0.clean_message
       THEN IF ~IsDict(message) THEN raise(s0)
            ELSE IF ~HasText(message) THEN wait_for_message(s0)
            ELSE IF ~HasUser(message) THEN wait_for_message(s0)
            ELSE IF ~UserIsDict(message) THEN raise(s0)
            ELSE IF ~UserHasFields(message) THEN wait_for_message(s0)
            ELSE wait_for_message(callback(s0, projection(message)))
       ELSE wait_for_message(callback(s0, message))

payload_arms_stall_never(s) == s

(* line 264: every payload read re-arms the stall timer *)
payload_arms_stall(s) == set_stall_timeout(s)

parse_json(s, response) ==
    LET s1 == payload_arms_stall([s EXCEPT !.read_pending = "none"])
    IN IF response = <<>>
       THEN wait_for_message(s1)
       ELSE IF IsJson(response)
       THEN parse_response([s1 EXCEPT !.partial_tweet = <<>>],
                           json_loads(response))
       ELSE LET partial == s1.partial_tweet \o response
            IN IF IsJson(partial)
               THEN parse_response([s1 EXCEPT !.partial_tweet = <<>>],
                                   json_loads(partial))
               ELSE wait_for_message([s1 EXCEPT !.partial_tweet = partial])

close_before_established_callback(s, resolved) ==
    LET s1 == [close(s) EXCEPT !.in_process = FALSE]
        s2 == schedule_restart(s1, s1.pre_delay, resolved)
    IN [s2 EXCEPT !.pre_delay = next_pre_delay(@)]

close_restart_delay_error_tier(s) == s.retry_delay

(* lines 352-353: the delay of the restart after a close while streaming *)
close_restart_delay(s) == 0

close_callback(s, resolved) ==
    LET s1 == close_helper(s)
    IN schedule_restart(s1, close_restart_delay(s1), resolved)

stall_callback(s, resolved) == schedule_restart(close(s), 0, resolved)

----------------------------------------------------------------------------
(* The state after __init__ *)

Init ==
    /\ twitter_stream = "none"
    /\ read_pending = "none"
    /\ close_cb = "noop"
    /\ scheduled = FALSE
    /\ in_process = FALSE
    /\ restart_age = NoTime
    /\ retry_delay = RetryDelayInit
    /\ rate_limited_delay = RateLimitedInit
    /\ pre_delay = PreDelayInit
    /\ timeout_handle = NoTimer
    /\ stall_timeout_handle = NoTimer
    /\ partial_tweet = <<>>
    /\ orphans = 0
    /\ ev = "init"
    /\ openRes = "none"
    /\ replaced = FALSE
    /\ nErr = 0
    /\ nRate = 0
    /\ nPre = 0
    /\ lastGap = NoTime
    /\ since_payload = 0
    /\ since_emit = 0
    /\ fatal = FALSE
    /\ nOnError = 0
    /\ stray_timers = 0
    /\ queued = {}
    /\ late = "none"
    /\ escaped = FALSE
    /\ shut = FALSE
    /\ clean_message \in BOOLEAN
    /\ parsed = <<>>
    /\ delivered = <<>>
    /\ prev_frag = <<>>
    /\ doc = <<>>

----------------------------------------------------------------------------
(* The actions: one per call of the API and per callback of the event loop *)

(* the caller calls fetch() *)
Fetch ==
    \E resolved \in BOOLEAN :
        Commit([fetch(Begin("fetch"), resolved) EXCEPT !.shut = FALSE])

(* the caller calls close() *)
Close == Commit([close(Begin("close")) EXCEPT !.shut = TRUE])

(* the reconnect timer fires: the loop calls open_twitter_stream *)
TimerFires ==
    /\ timeout_handle = 0
    /\ \E resolved \in BOOLEAN :
        Commit(open_twitter_stream(
            [Begin("timer") EXCEPT !.timeout_handle = NoTimer], resolved))

(* the stall timer fires: the loop calls stall_callback *)
StallFires ==
    /\ stall_timeout_handle = 0
    /\ \E resolved \in BOOLEAN :
        Commit(stall_callback(
            [Begin("stall_callback") EXCEPT !.stall_timeout_handle = NoTimer],
            resolved))

(* the connection is made *)
Connected ==
    /\ twitter_stream = "open"
    /\ read_pending = "connect"
    /\ Commit(on_connect(Begin("on_connect")))

(* the responses the environment sends: the consecutive failures of a tier
   are bounded *)
HeadersAllowed(code, maxErrors, maxRateLimited) ==
    /\ code = 420 => nRate < maxRateLimited
    /\ code \notin ({200, 420} \cup FatalCodes) => nErr < maxErrors

(* on_headers, and what the history variables record of the status *)
headers_step(s, code, content_length) ==
    LET r == on_headers(s, code, content_length)
    IN IF code = 200
       THEN [r EXCEPT !.ev = "status_200", !.nErr = 0, !.nRate = 0,
                      !.nPre = 0, !.since_payload = 0, !.since_emit = 0]
       ELSE IF code = 420
       THEN [r EXCEPT !.ev = "status_420", !.nRate = @ + 1]
       ELSE IF code \notin FatalCodes
       THEN [r EXCEPT !.ev = "status_retry", !.nErr = @ + 1]
       ELSE [r EXCEPT !.ev = "status_fatal", !.fatal = TRUE]

(* the status line and the headers have arrived *)
HeadersRead(maxErrors, maxRateLimited) ==
    /\ twitter_stream = "open"
    /\ read_pending = "headers"
    /\ \E code \in StatusCodes, content_length \in {0, 1} :
        /\ HeadersAllowed(code, maxErrors, maxRateLimited)
        /\ Commit(headers_step(Begin("on_headers"), code, content_length))

(* the body of a fatal response has arrived *)
ErrorBodyRead ==
    /\ twitter_stream = "open"
    /\ read_pending = "errbody"
    /\ Commit(get_error_body(Begin("get_error_body")))

(* what the history records of a line *)
LineEvent(line) ==
    IF line = "malformed" THEN "on_result_malformed" ELSE "on_result"

(* a line of the stream has arrived *)
LineRead(lines) ==
    /\ twitter_stream = "open"
    /\ read_pending = "line"
    /\ \E line \in lines :
        Commit(on_result(Begin(LineEvent(line)), line))

(* the payloads the environment sends: one that is no document and does not
   complete the buffer to a document is the beginning of a document, and fits
   the bound of the partial-frame buffer *)
PayloadAllowed(response) ==
    (/\ response # <<>>
     /\ ~IsJson(response)
     /\ ~IsJson(partial_tweet \o response))
        => /\ response[1] \in {"-", "["}
           /\ Len(partial_tweet) + Len(response) <= MaxPartial

(* parse_json, and what the history variables record of the payload *)
payload_step(s, response) ==
    LET whole == s.prev_frag \o response
        completes == s.prev_frag # <<>> /\ response # <<>> /\ IsJson(whole)
    IN [parse_json(s, response) EXCEPT
          !.since_payload = 0,
          !.doc = IF completes THEN whole ELSE <<>>,
          !.prev_frag = IF response # <<>> /\ ~IsJson(response) /\ ~completes
                        THEN response ELSE <<>>]

(* the payload of a frame has arrived *)
PayloadRead(payloads) ==
    /\ twitter_stream = "open"
    /\ read_pending = "payload"
    /\ \E response \in payloads :
        /\ PayloadAllowed(response)
        /\ Commit(payload_step(Begin("parse_json"), response))

(* tornado runs the close callback of a transport after the callbacks of that
   transport it has queued *)
NoneQueuedOfCurrent == \A c \in queued : c.id # "current"

(* the transport closes and its close callback runs in the next turn of the
   loop, with nothing in between *)
closed_by_peer(s) ==
    [s EXCEPT !.twitter_stream = "closed", !.read_pending = "none",
              !.close_cb = "noop"]

(* The loop queues the callback of a read (or of the connect) that has
   completed and runs it in a later turn; the turns of other callbacks, of
   timers that are due and of the caller come in between. *)
Arrives ==
    /\ twitter_stream = "open"
    /\ read_pending # "none"
    /\ Cardinality(queued) < MaxQueued
    /\ Commit([Begin("arrives") EXCEPT
                 !.queued = @ \cup {[kind |-> read_pending, id |-> "current",
                                     cb |-> "none"]},
                 !.read_pending = "none"])

(* The transport closes (the connection fails, or the peer closes it) and
   the loop queues its close callback, once the callbacks of the transport
   that are queued have run. *)
TransportCloses(maxPreFails) ==
    /\ twitter_stream = "open"
    /\ close_cb # "noop"
    /\ close_cb = "pre" => nPre < maxPreFails
    /\ Cardinality(queued) < MaxQueued
    /\ Commit(stream_close(Begin("transport_closes")))

(* a queued callback runs: the handler compares the id it was given with
   _current_iostream (get_error_body and the close callbacks are given
   none) *)
QueuedRuns(maxErrors, maxRateLimited, payloads) ==
    \E c \in queued :
        LET s == [Begin("queued") EXCEPT !.queued = @ \ {c}, !.late = c.id]
        IN \/ /\ c.kind = "connect"
              /\ Commit(maybe_run_close_callback(when_current(c.id, s,
                            on_connect([s EXCEPT !.ev = "on_connect"]))))
           \/ /\ c.kind = "headers"
              /\ \E code \in StatusCodes, content_length \in {0, 1} :
                    /\ HeadersAllowed(code, maxErrors, maxRateLimited)
                    /\ Commit(maybe_run_close_callback(when_current(c.id, s,
                                  headers_step(s, code, content_length))))
           \/ /\ c.kind = "line"
              /\ \E line \in Lines :
                    Commit(maybe_run_close_callback(when_current(c.id, s,
                              on_result([s EXCEPT !.ev = LineEvent(line)], line))))
           \/ /\ c.kind = "payload"
              /\ \E response \in payloads :
                    /\ PayloadAllowed(response)
                    /\ Commit(maybe_run_close_callback(when_current(c.id, s,
                                  payload_step([s EXCEPT !.ev = "parse_json"], response))))
           \/ /\ c.kind = "errbody"
              /\ Commit(maybe_run_close_callback(
                            get_error_body([s EXCEPT !.ev = "get_error_body"])))
           \/ /\ c.kind = "closed"
              /\ c.cb = "pre"
              /\ \E resolved \in BOOLEAN :
                    Commit([close_before_established_callback(
                               [s EXCEPT !.ev = "close_before_established_callback"],
                               resolved)
                             EXCEPT !.nPre = @ + 1])
           \/ /\ c.kind = "closed"
              /\ c.cb = "close"
              /\ \E resolved \in BOOLEAN :
                    Commit(close_callback([s EXCEPT !.ev = "close_callback"],
                                          resolved))

(* the transport closes (the connection fails, or the peer closes it)
   before the headers were read *)
ClosedBeforeEstablished(maxPreFails) ==
    /\ twitter_stream = "open"
    /\ close_cb = "pre"
    /\ NoneQueuedOfCurrent
    /\ nPre < maxPreFails
    /\ \E resolved \in BOOLEAN :
        Commit([close_before_established_callback(
                    closed_by_peer(Begin("close_before_established_callback")),
                    resolved)
                  EXCEPT !.nPre = @ + 1])

(* the transport closes while streaming *)
ClosedWhileStreaming ==
    /\ twitter_stream = "open"
    /\ close_cb = "close"
    /\ NoneQueuedOfCurrent
    /\ \E resolved \in BOOLEAN :
        Commit(close_callback(closed_by_peer(Begin("close_callback")), resolved))

(* the transport closes with no close callback set (lambda: None) *)
ClosedUnwatched ==
    /\ twitter_stream = "open"
    /\ close_cb = "noop"
    /\ NoneQueuedOfCurrent
    /\ Commit(closed_by_peer(Begin("closed_unwatched")))

(* Time passes, up to the next deadline or to one second before it.  A timer
   that is due fires, and a queued callback runs, before time passes on. *)
Deadlines ==
    ({timeout_handle, stall_timeout_handle} \ {NoTimer})
    \cup (IF restart_age # NoTime /\ restart_age < FlapGuard
          THEN {FlapGuard - restart_age} ELSE {})

TickSteps ==
    IF Deadlines = {} \/ 0 \in Deadlines \/ queued # {}
    THEN {}
    ELSE LET m == MinOf(Deadlines)
         IN {m} \cup (IF m > Sec(1) THEN {m - Sec(1)} ELSE {})

(* the history clocks stop one step past the stall timeout *)
ClockCap == StallTimeout + 1

Elapse(t, d) == IF t = NoTimer THEN NoTimer ELSE t - d

Tick ==
    \E d \in TickSteps :
        Commit([Begin("tick") EXCEPT
            !.timeout_handle = Elapse(@, d),
            !.stall_timeout_handle = Elapse(@, d),
            !.restart_age = IF @ = NoTime THEN NoTime ELSE Min(@ + d, FlapGuard),
            !.since_payload = Min(@ + d, ClockCap),
            !.since_emit = Min(@ + d, ClockCap)])

Next ==
    \/ Fetch
    \/ Close
    \/ TimerFires
    \/ StallFires
    \/ Connected
    \/ HeadersRead(MaxErrors, MaxRateLimited)
    \/ ErrorBodyRead
    \/ LineRead(Lines)
    \/ PayloadRead(Payloads)
    \/ ClosedBeforeEstablished(MaxPreFails)
    \/ ClosedWhileStreaming
    \/ ClosedUnwatched
    \/ Arrives
    \/ TransportCloses(MaxPreFails)
    \/ QueuedRuns(MaxErrors, MaxRateLimited, Payloads)
    \/ Tick

Spec == Init /\ [][Next]_vars

(* The same program where the environment lets each backoff tier run past its
   cap, every line is well-formed, every payload is a whole document or a
   keep-alive and every callback runs in the turn its event happens *)
NextBackoff ==
    \/ Fetch
    \/ Close
    \/ TimerFires
    \/ StallFires
    \/ Connected
    \/ HeadersRead(DeepErrors, MaxRateLimited)
    \/ ErrorBodyRead
    \/ LineRead(WholeLines)
    \/ PayloadRead(WholePayloads)
    \/ ClosedBeforeEstablished(DeepPreFails)
    \/ ClosedWhileStreaming
    \/ ClosedUnwatched
    \/ Tick

InitBackoff == Init /\ ~clean_message

SpecBackoff == InitBackoff /\ [][NextBackoff]_vars

----------------------------------------------------------------------------
(* The properties *)

OpenTransports == orphans + (IF twitter_stream = "open" THEN 1 ELSE 0)

ErrorDelayAfter(n) == Min(RetryDelayInit * Pow2(n), RetryDelayCap)

RateLimitedDelayAfter(n) == RateLimitedInit * Pow2(n)

PreDelayAfter(n) == Min(PreDelayInit + PreDelayStep * n, PreDelayCap)

(* C1: at most one transport is open at any moment: when open_twitter_stream
   creates a transport, the one owned before has been closed. *)
C1_AtMostOneTransport == OpenTransports <= 1

(* a new attempt has replaced a transport that was still open *)
C1_Witness == openRes = "started" /\ replaced /\ twitter_stream = "open"

(* C2: the retry after the n-th consecutive retriable status (n from 0 since
   the last 200) is scheduled with min(5 * 2^n, 320) s; _retry_delay never
   exceeds 320 s and is 5 s again after a 200. *)
C2_ErrorDelayTier ==
    /\ retry_delay = ErrorDelayAfter(nErr)
    /\ retry_delay <= RetryDelayCap
    /\ ev = "status_retry" =>
          /\ scheduled
          /\ timeout_handle = ErrorDelayAfter(nErr - 1)
    /\ ev = "status_200" => retry_delay = RetryDelayInit

(* the eighth retriable status in a row: the delay has stopped at the cap *)
C2_Witness ==
    /\ ev = "status_retry"
    /\ nErr = 8
    /\ timeout_handle = RetryDelayCap
    /\ retry_delay = RetryDelayCap

(* C3: the retry after the n-th consecutive 420 (n from 0 since the last 200)
   is scheduled with 60 * 2^n s, the value is doubled after the retry was
   scheduled with the old one, and a 200 resets it to 60 s. *)
C3_RateLimitedTier ==
    /\ rate_limited_delay = RateLimitedDelayAfter(nRate)
    /\ ev = "status_420" =>
          /\ scheduled
          /\ timeout_handle = RateLimitedDelayAfter(nRate - 1)
    /\ ev = "status_200" => rate_limited_delay = RateLimitedInit

(* the second 420 in a row: scheduled after 120 s, the next one is 240 s *)
C3_Witness ==
    /\ ev = "status_420"
    /\ nRate = 2
    /\ timeout_handle = Sec(120)
    /\ rate_limited_delay = Sec(240)

(* C4: the retry after the n-th consecutive close before the headers (n from
   0 since the last 200) is scheduled with min(0.25 * (n + 1), 16) s;
   _retry_before_established_delay never exceeds 16 s and is 0.25 s again
   after a 200. *)
C4_PreEstablishedTier ==
    /\ pre_delay = PreDelayAfter(nPre)
    /\ pre_delay <= PreDelayCap
    /\ ev = "close_before_established_callback" =>
          /\ scheduled
          /\ timeout_handle = PreDelayAfter(nPre - 1)
    /\ ev = "status_200" => pre_delay = PreDelayInit

(* the 65th close in a row: the delay has stopped at 16 s *)
C4_Witness ==
    /\ ev = "close_before_established_callback"
    /\ nPre = 65
    /\ timeout_handle = PreDelayCap
    /\ pre_delay = PreDelayCap

(* C5: open_twitter_stream run less than 5 s after the start of the previous
   attempt opens nothing and re-schedules itself 5 s later, so two
   consecutive attempts start at least 5 s apart. *)
C5_FlappingGuard ==
    /\ openRes = "deferred" =>
          /\ scheduled
          /\ ~in_process
          /\ timeout_handle = FlapGuard
    /\ openRes \in {"started", "raised"} =>
          (lastGap = NoTime \/ lastGap >= FlapGuard)

(* the reconnect timer fired too soon and the attempt was put off by 5 s *)
C5_Witness ==
    /\ ev = "timer"
    /\ openRes = "deferred"
    /\ restart_age < FlapGuard
    /\ timeout_handle = FlapGuard

C7_FatalNeverRetried ==
    [][(fatal \/ fatal') =>
          /\ timeout_handle' = NoTimer
          /\ retry_delay' = retry_delay
          /\ rate_limited_delay' = rate_limited_delay
          /\ pre_delay' = pre_delay
          /\ openRes' = "none"]_vars

(* the body of a fatal response was read and reported *)
C7_Witness == fatal /\ ev = "get_error_body" /\ nOnError = 1

(* C8: a fatal status leads to exactly one call of on_error for the attempt,
   also when the transport closes before the body has arrived: after the
   status, the body or the close of the transport, on_error has been called
   once unless the body is still awaited. *)
C8_FatalReportedOnce ==
    (/\ fatal
     /\ ev \in {"status_fatal", "get_error_body", "closed_unwatched"}
     /\ read_pending # "errbody") => nOnError = 1

(* C9: a transient failure is retried: after each one, a new attempt has
   begun or a reconnect timer is pending that will begin it. *)
TransientFailure ==
    \/ ev \in {"close_before_established_callback", "close_callback",
               "stall_callback", "status_420", "status_retry"}
    \/ openRes = "raised"

C9_TransientAlwaysRetried ==
    TransientFailure => (openRes = "started" \/ timeout_handle # NoTimer)

(* C10 as stated: the stall deadline is 90 s after the last message given to
   the callback (or the 200), whatever frames arrive in between. *)
C10_StallCountsEmissions ==
    stall_timeout_handle # NoTimer =>
        stall_timeout_handle + since_emit = StallTimeout

(* C10 amended: the stall deadline is 90 s after the last payload read (or
   the 200), be it a message, a keep-alive or an unparsable fragment; a blank
   length line does not move it. *)
C10_StallCountsPayloads ==
    /\ (twitter_stream = "open" /\ close_cb = "close") =>
          stall_timeout_handle # NoTimer
    /\ stall_timeout_handle # NoTimer =>
          stall_timeout_handle + since_payload = StallTimeout
    /\ ev = "stall_callback" => stall_timeout_handle = NoTimer

(* a payload that gave the callback nothing, read at 89 s, moved the
   deadline to 90 s from then *)
C10_Witness ==
    /\ ev = "parse_json"
    /\ since_emit = Sec(89)
    /\ since_payload = 0
    /\ stall_timeout_handle = StallTimeout

(* C11: close() shuts the controller down: from the caller's close() until
   the caller's next call, no reconnect timer and no stall deadline is
   pending, the transport is closed and no connection attempt begins. *)
C11_ShutdownComplete ==
    shut =>
        /\ timeout_handle = NoTimer
        /\ stall_timeout_handle = NoTimer
        /\ twitter_stream # "open"
        /\ openRes # "started"

(* C12: when a document arrives split over two consecutive frames, the first
   of which is no document, exactly one message is given to the callback for
   the two frames and it is the parse of the whole document, also when the
   second frame is a document by itself. *)
C12_SplitDocumentReassembled ==
    (~clean_message /\ doc # <<>>) => delivered = <<json_loads(doc)>>

(* C13: in clean mode, an object that lacks "text", "user" or a field of
   "user", or whose "user" is not an object, is not given to the callback,
   and the read of the next frame is issued. *)
C13_IncompleteMessageDropped ==
    (/\ clean_message
     /\ parsed # <<>>
     /\ IsDict(parsed[1])
     /\ ~UserHasFields(parsed[1])) =>
        /\ delivered = <<>>
        /\ ~escaped
        /\ twitter_stream = "open" => read_pending = "line"

(* C14: a length line that is not a base-16 number raises nothing out of the
   handler: the attempt is given up and a reconnect is scheduled with the
   current _retry_delay. *)
C14_MalformedLengthReconnects ==
    (ev = "on_result_malformed" /\ late # "superseded") =>
        /\ ~escaped
        /\ scheduled
        /\ timeout_handle = ErrorDelayAfter(nErr)

(* C15: after any call of fetch() a connection attempt has begun in the call
   or is under way, or a reconnect timer is pending that will begin one. *)
AttemptUnderWay == twitter_stream = "open" /\ ~fatal

C15_FetchAlwaysInitiates ==
    ev = "fetch" =>
        \/ openRes \in {"started", "raised"}
        \/ timeout_handle # NoTimer
        \/ AttemptUnderWay

(* C16: a callback of a superseded attempt that runs after a newer attempt
   has become current changes no field of the controller, gives the caller
   nothing and issues no read. *)
Fields ==
    <<twitter_stream, read_pending, close_cb, scheduled, in_process,
      restart_age, retry_delay, rate_limited_delay, pre_delay, timeout_handle,
      stall_timeout_handle, partial_tweet, orphans, stray_timers>>

C16_SupersededCallbackIsNoOp ==
    [][late' = "superseded" =>
          /\ UNCHANGED Fields
          /\ delivered' = <<>>
          /\ nOnError' = nOnError]_vars

(* C17: no reconnect timer is ever pending besides the one _timeout_handle
   names, and a restart asked for by fetch(), close_callback or
   stall_callback while a restart is scheduled or an attempt is in process
   begins no attempt and arms no timer. *)
C17_RestartsCoalesce ==
    [][/\ stray_timers' = 0
       /\ (/\ scheduled \/ in_process
           /\ ev' \in {"fetch", "close_callback", "stall_callback"}) =>
              /\ openRes' = "none"
              /\ timeout_handle' \in {timeout_handle, NoTimer}]_vars

(* fetch() was called while the reconnect timer of a rate limit was pending:
   the timer is the only one and is left as it was *)
C17_Witness ==
    /\ ev = "fetch"
    /\ scheduled
    /\ openRes = "none"
    /\ timeout_handle = RateLimitedInit

(* C18: a stall deadline is pending only for the current attempt while it is
   streaming (or until its queued close callback runs in the next turn): it
   is gone once the attempt is closed, stalled or superseded. *)
CloseCallbackQueued ==
    \E c \in queued : c.kind = "closed" /\ c.id = "current" /\ c.cb = "close"

C18_StallBelongsToStreaming ==
    stall_timeout_handle # NoTimer =>
        \/ twitter_stream = "open" /\ close_cb = "close"
        \/ CloseCallbackQueued

(* C19: whenever a new attempt starts, _partial_tweet is empty. *)
C19_BufferEmptyAtStart == openRes = "started" => partial_tweet = <<>>

(* C20: whenever _stream_restart_scheduled is true between two turns of the
   loop, a reconnect timer is pending. *)
C20_NoLostWakeup == scheduled => timeout_handle # NoTimer

(* C21: an attempt whose transport is open and silent before the headers (no
   connect completion, no headers, no close, nothing queued on the loop) is
   abandoned in the end, as a silent streaming attempt is by the stall
   timer: a deadline is pending that will abandon it.  With none pending no
   handler runs, and fetch() does nothing while the attempt is in process. *)
SilentBeforeHeaders ==
    /\ twitter_stream = "open"
    /\ read_pending \in {"connect", "headers"}
    /\ queued = {}

C21_SilenceHasDeadline ==
    SilentBeforeHeaders =>
        (stall_timeout_handle # NoTimer \/ timeout_handle # NoTimer)

====
